---- MODULE Spec2Model ----
(***************************************************************************)
(* State-machine model of the TagPass edge agent (src/raspberry):          *)
(* the local store (db_local.py), the ingestion endpoint and intake queue  *)
(* (local_server.py) and the worker threads (worker.py): bootstrap,         *)
(* discovery, block-list propagation and the cloud sync loop.              *)
(***************************************************************************)
EXTENDS Integers, Sequences, FiniteSets, TLC

\* ------------------------------------------------------------------ bounds
\* POST /rfid requests received in one behaviour
MaxScans == 2
\* administrative changes of the cloud access_blocks table in one behaviour
MaxMutations == 2
\* local storage (sqlite) errors raised in one behaviour
MaxFaults == 1
\* failures in a row that the counters of failed attempts tell apart
MaxFailures == 3

\* ------------------------------------------------------- values and inputs
\* Python None, for card_uid, room_id and device_id
None == "None"
\* db_local.DEFAULT_ROOM_ID
DEFAULT_ROOM_ID == ""
\* card uids presented to the reader or known to the cloud
Cards == {"X", "Y"}
\* the room the registry assigns to this device, and another room of the site
Room == "R1"
OtherRoom == "R2"
Rooms == {Room, OtherRoom}
\* the id of this device's row in raspberry_devices
DeviceId == "D1"
\* the card_uid values a POST /rfid body can yield: a uid, "" or nothing
Bodies == Cards \cup {"", None}
\* what the raspberry_devices query can return for the principal: no row, or
\* its row with or without a room assignment
RegistryData == {{}} \cup {{[id |-> DeviceId, room_id |-> r]} : r \in {None, Room}}
\* the device's row when its room_id column holds an empty string
EmptyRoomRow == [id |-> DeviceId, room_id |-> ""]
\* card uids a store of the legacy shape (blocked_cards without room_id) held
LegacyBlocked == {{}, {"X"}}
\* config.AUTH_REQUIRED (default "true")
AUTH_REQUIRED == TRUE
\* config.BACKOFF_MIN and config.BACKOFF_MAX, in seconds, as the environment
\* of the modelled device sets them
BACKOFF_MIN == 1
BACKOFF_MAX == 2

VARIABLES
  \* runtime_state
  device_id, room_id,
  \* local store: tables local_events and blocked_cards
  local_events, blocked_cards,
  \* local_server: _event_queue, the HTTP responses sent, the consumer thread
  event_queue, responses, qw, write_failed,
  \* worker: realtime_event, the main thread, its locals in sync_with_supabase
  realtime_event, pc, valid_card_uids, events,
  \* history of the sync cycle: whether its rfid_cards query raised, the ids of
  \* the last batch that was not marked, the ids handed to mark_event_as_invalid
  fetch_failed, failed_batch, invalid_marked,
  \* worker: discovery thread, propagation thread, notifications in flight
  disc, rt, channel, filter_room,
  \* cloud: session, reachability, tables
  session, cloudUp, registry, rfid_cards, access_blocks, access_events,
  \* budgets of the environment
  mutations, faults, fresh,
  \* worker: the backoff of run_worker's loop; whether a set of realtime_event
  \* is still to be followed by a read of the outbox, and what the loop has
  \* slept since
  backoff, wake,
  \* worker: the initial login's attempt counter and the delay it slept last,
  \* the _auth_login_forever thread and its backoff
  attempt, login_delay, auth, auth_backoff,
  \* worker: the backoff of the retry thread, the failed subscription attempts
  \* in a row, and the subscriptions, pollers and retry threads alive
  rt_backoff, rt_fails, subscriptions, pollers, retriers,
  \* config.AUTH_REQUIRED as the process read it at start
  auth_required,
  \* history of the sync cycles: the ids of the batches whose insert succeeded
  \* and whose mark_as_synced raised
  mark_failed,
  \* db_local at the level of its SQL statements: the committed content of
  \* the sqlite file, the transaction of update_blocked_cards, and what the
  \* last is_card_blocked of another connection returned
  store, tx, seen,
  \* history of the running sync cycle: the ids its SELECT returned as
  \* unsynced; empty between cycles
  cycle_read,
  \* history of the sign-ins: a sign-in has succeeded and no
  \* time.sleep(AUTH_REFRESH_SECONDS) has elapsed since
  held

vars == <<device_id, room_id, local_events, blocked_cards, event_queue, responses,
          qw, write_failed, realtime_event, pc, valid_card_uids, events,
          fetch_failed, failed_batch, invalid_marked, disc, rt,
          channel, filter_room, session, cloudUp, registry, rfid_cards,
          access_blocks, access_events, mutations, faults, fresh,
          backoff, wake, attempt, login_delay, auth, auth_backoff,
          rt_backoff, rt_fails, subscriptions, pollers, retriers,
          auth_required, mark_failed, store, tx, seen, cycle_read, held>>

\* groups of variables, for the UNCHANGED clauses
idVars == <<device_id, room_id>>
serverVars == <<event_queue, responses, qw, write_failed>>
syncLocals == <<valid_card_uids, events, fetch_failed, failed_batch, invalid_marked,
                mark_failed, cycle_read>>
syncVars == <<pc, syncLocals>>
propVars == <<disc, rt, channel, filter_room>>
cloudVars == <<session, cloudUp, registry, rfid_cards, access_blocks, access_events>>
authVars == <<attempt, login_delay, auth, auth_backoff, auth_required, held>>
retryVars == <<rt_backoff, rt_fails, subscriptions, pollers, retriers>>
dbVars == <<store, tx, seen>>

\* ------------------------------------------------------------ runtime_state
\* the process-wide device identity: unresolved (None) until set_device
get_room_id == room_id

get_device_id == device_id

set_device(d, r) == <<d, r>>

\* get_room_id() or "" (receive_rfid, _handle_permission_change)
OrEmpty(r) == IF r = None THEN "" ELSE r

\* a truth test that only looks for None
TruthyNotNone(v) == v # None

\* a Python truth test of a string-or-None value
Truthy(v) == v # None /\ v # ""

\* ----------------------------------------------------------------- db_local
\* _migrate_blocked_cards_add_room: a legacy table of card_uids becomes
\* entries under DEFAULT_ROOM_ID
MigrateBlockedCards(legacy) == {<<c, DEFAULT_ROOM_ID>> : c \in legacy}

\* is_card_blocked without the test of an unresolved room
is_card_blocked_no_guard(bc, card_uid, r) == <<card_uid, r>> \in bc

\* is_card_blocked(db, card_uid, room_id)
is_card_blocked(bc, card_uid, r) ==
  IF r = None \/ r = "" THEN FALSE ELSE <<card_uid, r>> \in bc

\* upsert_blocked_card that writes the legacy shape, without the room
upsert_blocked_card_default_room(bc, card_uid, r) == bc \cup {<<card_uid, DEFAULT_ROOM_ID>>}

\* upsert_blocked_card: INSERT OR REPLACE on the key (card_uid, room_id)
upsert_blocked_card(bc, card_uid, r) == bc \cup {<<card_uid, r>>}

\* remove_blocked_card
remove_blocked_card(bc, card_uid, r) == bc \ {<<card_uid, r>>}

\* insert_local_event: AUTOINCREMENT id, timestamp default, synced default 0
insert_local_event(ev, card_uid, authorized, req) ==
  Append(ev, [id |-> Len(ev) + 1, card_uid |-> card_uid, timestamp |-> Len(ev) + 1,
              authorized |-> IF authorized THEN 1 ELSE 0, synced |-> 0, req |-> req])

\* mark_as_synced with "WHERE synced = 0" in place of the ids
mark_as_synced_all_unsynced(ev, ids) ==
  [i \in DOMAIN ev |-> [ev[i] EXCEPT !.synced = 1]]

\* mark_as_synced with "WHERE id = ?" bound to the first id only
mark_as_synced_first_only(ev, ids) ==
  [i \in DOMAIN ev |->
     IF ids # {} /\ ev[i].id = CHOOSE m \in ids : \A k \in ids : m <= k
     THEN [ev[i] EXCEPT !.synced = 1] ELSE ev[i]]

\* mark_as_synced: UPDATE ... SET synced = 1 WHERE id = ? for every id, one commit
mark_as_synced(ev, ids) ==
  [i \in DOMAIN ev |-> IF ev[i].id \in ids THEN [ev[i] EXCEPT !.synced = 1] ELSE ev[i]]

\* mark_event_as_invalid without its commit: the UPDATE is rolled back on close
mark_event_as_invalid_uncommitted(ev, event_id) == ev

\* mark_event_as_invalid that deletes logically by clearing the row's flags
mark_event_as_invalid_clears_row(ev, event_id) ==
  [i \in DOMAIN ev |->
     IF ev[i].id = event_id THEN [ev[i] EXCEPT !.synced = 1, !.authorized = 0] ELSE ev[i]]

\* mark_event_as_invalid: UPDATE ... SET synced = 1 WHERE id = ?
mark_event_as_invalid(ev, event_id) ==
  [i \in DOMAIN ev |-> IF ev[i].id = event_id THEN [ev[i] EXCEPT !.synced = 1] ELSE ev[i]]

\* the SELECT of get_valid_unsynced_events: ids with synced = 0, in rowid order
Unsynced(ev) == {i \in DOMAIN ev : ev[i].synced = 0}

\* get_valid_unsynced_events without the card_uid test (get_unsynced_events)
ValidIdsUnfiltered(ev, valid) == Unsynced(ev)

\* get_valid_unsynced_events with a SELECT that has no "WHERE synced = 0"
ValidIdsAnySynced(ev, valid) == {i \in DOMAIN ev : ev[i].card_uid \in valid}

\* the ids get_valid_unsynced_events returns (valid_rows)
ValidIds(ev, valid) == {i \in Unsynced(ev) : ev[i].card_uid \in valid}

\* the ids get_valid_unsynced_events hands to mark_event_as_invalid
InvalidIds(ev, valid) == {i \in Unsynced(ev) : ev[i].card_uid \notin valid}

\* the table after mark_event_as_invalid ran for the invalid ids below `upto`
RECURSIVE MarkInvalidBelow(_, _, _)
MarkInvalidBelow(ev, valid, upto) ==
  IF upto <= 1 THEN ev
  ELSE LET prev == MarkInvalidBelow(ev, valid, upto - 1)
       IN IF (upto - 1) \in InvalidIds(ev, valid)
          THEN mark_event_as_invalid(prev, upto - 1) ELSE prev

\* a set of ids as the ascending sequence the SELECT returns
RECURSIVE Ascending(_)
Ascending(S) ==
  IF S = {} THEN <<>>
  ELSE LET m == CHOOSE x \in S : \A y \in S : x <= y
       IN <<m>> \o Ascending(S \ {m})

\* update_blocked_cards: DELETE all, INSERT every fetched row, one commit
update_blocked_cards(bc, rows) == {rows[i] : i \in DOMAIN rows}

\* whether the INSERTs of update_blocked_cards hit a NULL or duplicate key
RowsRejected(rows) ==
  \/ \E i \in DOMAIN rows : rows[i][1] = None \/ rows[i][2] = None
  \/ \E i, j \in DOMAIN rows : i # j /\ rows[i] = rows[j]

\* a set of (card_uid, room_id) pairs as the list of rows a query returns
RECURSIVE RowsOf(_)
RowsOf(S) ==
  IF S = {} THEN <<>>
  ELSE LET m == CHOOSE x \in S : TRUE
       IN <<m>> \o RowsOf(S \ {m})

\* ------------------------------------------- db_local, the file and its rows
\* the values of updated_at: a created_at of the cloud, or CURRENT_TIMESTAMP
Times == {1, 2}

\* a file that init_local_db has not touched yet: no tables
FreshStore ==
  [events_shape |-> "absent", events |-> {}, blocked_shape |-> "absent", blocked |-> {}]

\* a file of the legacy shape: local_events without authorized, blocked_cards
\* with the columns (card_uid, updated_at) that the migration reads
LegacyStore(evs, uids) ==
  [events_shape |-> "legacy",
   events |-> {[id |-> i, card_uid |-> "X", synced |-> 0] : i \in evs},
   blocked_shape |-> "legacy",
   blocked |-> {[card_uid |-> c, updated_at |-> 1] : c \in uids}]

\* the file after init_local_db ran on a fresh one: both tables, no rows
CurrentStore ==
  [events_shape |-> "current", events |-> {}, blocked_shape |-> "current", blocked |-> {}]

\* no transaction of update_blocked_cards has been started
NoTx == [state |-> "idle", rows |-> <<>>, work |-> {}, todo |-> <<>>]

\* no is_card_blocked has been observed
NoRead ==
  [room_id |-> None, result |-> FALSE, reseeding |-> FALSE, in_old |-> FALSE,
   in_new |-> FALSE]

\* the (card_uid, room_id) keys of the rows of a blocked_cards table
Keys(tbl) == {<<row.card_uid, row.room_id>> : row \in tbl}

\* --------------------------------------------------------------------- Init
Init ==
  /\ device_id = None
  /\ room_id = None
  /\ local_events = <<>>
  /\ blocked_cards \in {MigrateBlockedCards(l) : l \in LegacyBlocked}
  /\ event_queue = <<>>
  /\ responses = <<>>
  /\ qw = "get"
  /\ write_failed = {}
  /\ realtime_event = FALSE
  /\ pc = "login"
  /\ valid_card_uids = {}
  /\ events = <<>>
  /\ fetch_failed = FALSE
  /\ failed_batch = {}
  /\ invalid_marked = {}
  /\ disc = "off"
  /\ rt = "off"
  /\ channel = <<>>
  /\ filter_room = None
  /\ session = FALSE
  /\ cloudUp = TRUE
  /\ registry = {}
  /\ rfid_cards = {"X"}
  /\ access_blocks = {<<"X", Room>>}
  /\ access_events = <<>>
  /\ mutations = 0
  /\ faults = 0
  /\ fresh = FALSE
  /\ backoff = BACKOFF_MIN
  /\ wake = "none"
  /\ attempt = 1
  /\ login_delay = 0
  /\ auth = "off"
  /\ auth_backoff = BACKOFF_MIN
  /\ rt_backoff = BACKOFF_MIN
  /\ rt_fails = 0
  /\ subscriptions = 0
  /\ pollers = 0
  /\ retriers = 0
  /\ auth_required = AUTH_REQUIRED
  /\ held = FALSE
  /\ mark_failed = {}
  /\ cycle_read = {}
  /\ store = CurrentStore
  /\ tx = NoTx
  /\ seen = NoRead

\* run_worker, lines 280-281, when AUTH_REQUIRED is false: no blocking login;
\* the _auth_login_forever thread is started and the main thread goes on to
\* start discovery without a session
InitAnon ==
  /\ auth_required = FALSE
  /\ pc = "start_discovery"
  /\ auth = "signin"
  /\ session = FALSE
  /\ device_id = None /\ room_id = None
  /\ local_events = <<>>
  /\ blocked_cards \in {MigrateBlockedCards(l) : l \in LegacyBlocked}
  /\ event_queue = <<>> /\ responses = <<>> /\ qw = "get" /\ write_failed = {}
  /\ realtime_event = FALSE
  /\ valid_card_uids = {} /\ events = <<>>
  /\ fetch_failed = FALSE /\ failed_batch = {} /\ invalid_marked = {} /\ mark_failed = {}
  /\ cycle_read = {}
  /\ disc = "off" /\ rt = "off" /\ channel = <<>> /\ filter_room = None
  /\ cloudUp = TRUE /\ registry = {} /\ rfid_cards = {"X"}
  /\ access_blocks = {<<"X", Room>>} /\ access_events = <<>>
  /\ mutations = 0 /\ faults = 0 /\ fresh = FALSE
  /\ backoff = BACKOFF_MIN /\ wake = "none"
  /\ attempt = 1 /\ login_delay = 0 /\ auth_backoff = BACKOFF_MIN
  /\ rt_backoff = BACKOFF_MIN /\ rt_fails = 0
  /\ subscriptions = 0 /\ pollers = 0 /\ retriers = 0
  /\ store = CurrentStore /\ tx = NoTx /\ seen = NoRead /\ held = FALSE

\* ------------------------------------------------ realtime_event and backoff
\* realtime_event.set(): an outstanding set stays as it is
raise_wake(w) == IF w = "none" THEN "set" ELSE w

\* a time.sleep(backoff) begins after the set
begin_backoff(w) == IF w = "set" THEN "before_backoff" ELSE w

\* that time.sleep(backoff) has elapsed in full
end_backoff(w) == IF w = "before_backoff" THEN "backoff" ELSE w

\* backoff = backoff * 2, without the ceiling
next_backoff_uncapped(b) == b * 2

\* backoff = min(backoff * 2, BACKOFF_MAX)
next_backoff(b) == IF b * 2 < BACKOFF_MAX THEN b * 2 ELSE BACKOFF_MAX

\* ------------------------------------------------------------- local_server
\* receive_rfid, lines 18-22: no card_uid in the body
ReceiveRfidRejected(body) ==
  /\ Len(responses) < MaxScans
  /\ ~Truthy(body)
  /\ responses' = Append(responses,
       [status |-> 400, error |-> "card_uid requerido", authorized |-> None,
        card_uid |-> body, room |-> room_id, listed |-> FALSE])
  /\ UNCHANGED <<dbVars, idVars, local_events, blocked_cards, event_queue, qw, write_failed,
                 realtime_event, syncVars, propVars, cloudVars, mutations, faults, fresh,
                 backoff, wake, authVars, retryVars>>

\* receive_rfid, lines 24-29: decide from the mirror, enqueue, answer 202
ReceiveRfid(body) ==
  /\ Len(responses) < MaxScans
  /\ Truthy(body)
  /\ LET blocked == is_card_blocked(blocked_cards, body, OrEmpty(get_room_id))
         authorized == ~blocked
         req == Len(responses) + 1
     IN /\ event_queue' = Append(event_queue,
             [card_uid |-> body, authorized |-> authorized, req |-> req])
        /\ responses' = Append(responses,
             [status |-> 202, error |-> None, authorized |-> authorized,
              card_uid |-> body, room |-> room_id,
              listed |-> <<body, OrEmpty(room_id)>> \in blocked_cards])
  /\ UNCHANGED <<dbVars, idVars, local_events, blocked_cards, qw, write_failed,
                 realtime_event, syncVars, propVars, cloudVars, mutations, faults, fresh,
                 backoff, wake, authVars, retryVars>>

\* a consumer that puts the item back on the queue when the write fails
QueueWorkerWriteRequeues(fail) ==
  /\ qw = "get"
  /\ event_queue # <<>>
  /\ LET item == Head(event_queue)
     IN IF fail
        THEN /\ faults < MaxFaults
             /\ faults' = faults + 1
             /\ write_failed' = write_failed \cup {item.req}
             /\ event_queue' = Append(Tail(event_queue), item)
             /\ UNCHANGED <<local_events, qw>>
        ELSE /\ local_events' =
                  insert_local_event(local_events, item.card_uid, item.authorized, item.req)
             /\ qw' = "set"
             /\ event_queue' = Tail(event_queue)
             /\ UNCHANGED <<faults, write_failed>>
  /\ UNCHANGED <<dbVars, idVars, blocked_cards, responses, realtime_event, syncVars, propVars,
                 cloudVars, mutations, fresh,
                 backoff, wake, authVars, retryVars>>

\* a consumer that takes the item put last (a LIFO queue)
QueueWorkerWriteLifo(fail) ==
  /\ qw = "get"
  /\ event_queue # <<>>
  /\ LET item == event_queue[Len(event_queue)]
     IN IF fail
        THEN /\ faults < MaxFaults
             /\ faults' = faults + 1
             /\ write_failed' = write_failed \cup {item.req}
             /\ UNCHANGED <<local_events, qw>>
        ELSE /\ local_events' =
                  insert_local_event(local_events, item.card_uid, item.authorized, item.req)
             /\ qw' = "set"
             /\ UNCHANGED <<faults, write_failed>>
  /\ event_queue' = SubSeq(event_queue, 1, Len(event_queue) - 1)
  /\ UNCHANGED <<dbVars, idVars, blocked_cards, responses, realtime_event, syncVars, propVars,
                 cloudVars, mutations, fresh,
                 backoff, wake, authVars, retryVars>>

\* _queue_worker, lines 41-44 and 54-57: dequeue one item and write it; a
\* storage error is caught and logged, the item is not put back
QueueWorkerWrite(fail) ==
  /\ qw = "get"
  /\ event_queue # <<>>
  /\ LET item == Head(event_queue)
     IN IF fail
        THEN /\ faults < MaxFaults
             /\ faults' = faults + 1
             /\ write_failed' = write_failed \cup {item.req}
             /\ UNCHANGED <<local_events, qw>>
        ELSE /\ local_events' =
                  insert_local_event(local_events, item.card_uid, item.authorized, item.req)
             /\ qw' = "set"
             /\ UNCHANGED <<faults, write_failed>>
  /\ event_queue' = Tail(event_queue)
  /\ UNCHANGED <<dbVars, idVars, blocked_cards, responses, realtime_event, syncVars, propVars,
                 cloudVars, mutations, fresh,
                 backoff, wake, authVars, retryVars>>

\* _queue_worker, lines 49-51: after a successful write, realtime_event.set()
QueueWorkerSet ==
  /\ qw = "set"
  /\ realtime_event' = TRUE
  /\ qw' = "get"
  /\ wake' = raise_wake(wake)
  /\ UNCHANGED <<dbVars, idVars, local_events, blocked_cards, event_queue, responses,
                 write_failed, syncVars, propVars, cloudVars, mutations, faults, fresh,
                 backoff, authVars, retryVars>>

\* ---------------------------------------------------------- worker: bootstrap
\* the delay of run_worker's line 277: min(BACKOFF_MIN * attempt, BACKOFF_MAX)
LoginDelay(a) == IF BACKOFF_MIN * a < BACKOFF_MAX THEN BACKOFF_MIN * a ELSE BACKOFF_MAX

\* run_worker, lines 254-279: the blocking first sign-in succeeds, the loop
\* is left (its attempt counter is dead from here on) and the renewal thread
\* is started, whose backoff starts at BACKOFF_MIN (line 37)
Login ==
  /\ pc = "login"
  /\ cloudUp
  /\ session' = TRUE
  /\ pc' = "start_discovery"
  /\ attempt' = 1
  /\ login_delay' = 0
  /\ auth' = "signin"
  /\ auth_backoff' = BACKOFF_MIN
  /\ held' = TRUE
  /\ UNCHANGED <<dbVars, idVars, local_events, blocked_cards, serverVars, realtime_event,
                 syncLocals, propVars, cloudUp, registry, rfid_cards,
                 access_blocks, access_events, mutations, faults, fresh,
                 backoff, wake, retryVars, auth_required>>

\* run_worker, lines 273-277: the sign-in raises or yields no session; the
\* attempt counter is incremented and the loop sleeps before the next attempt
LoginFails ==
  /\ pc = "login"
  /\ ~cloudUp
  /\ attempt' = IF attempt <= MaxFailures THEN attempt + 1 ELSE attempt
  /\ login_delay' = LoginDelay(attempt')
  /\ UNCHANGED <<dbVars, idVars, local_events, blocked_cards, serverVars, realtime_event,
                 syncVars, propVars, cloudVars, mutations, faults, fresh,
                 backoff, wake, auth, auth_backoff, auth_required, held, retryVars>>

\* _auth_login_forever, lines 39-48 and 52-53: one sign-in of the renewal
\* thread; a success resets its backoff
AuthSignIn ==
  /\ auth = "signin"
  /\ IF cloudUp
     THEN /\ session' = TRUE
          /\ auth_backoff' = BACKOFF_MIN
          /\ auth' = "refresh"
          /\ held' = TRUE
     ELSE /\ auth' = "backoff"
          /\ UNCHANGED <<session, auth_backoff, held>>
  /\ UNCHANGED <<dbVars, idVars, local_events, blocked_cards, serverVars, realtime_event,
                 syncVars, propVars, cloudUp, registry, rfid_cards, access_blocks,
                 access_events, mutations, faults, fresh,
                 backoff, wake, attempt, login_delay, auth_required, retryVars>>

\* _auth_login_forever, line 51: time.sleep(AUTH_REFRESH_SECONDS)
AuthRefresh ==
  /\ auth = "refresh"
  /\ auth' = "signin"
  /\ held' = FALSE
  /\ UNCHANGED <<dbVars, idVars, local_events, blocked_cards, serverVars, realtime_event,
                 syncVars, propVars, cloudVars, mutations, faults, fresh,
                 backoff, wake, attempt, login_delay, auth_backoff, auth_required, retryVars>>

\* _auth_login_forever, lines 54-55: sleep the backoff, then double it up to
\* BACKOFF_MAX
AuthBackoff ==
  /\ auth = "backoff"
  /\ auth_backoff' = next_backoff(auth_backoff)
  /\ auth' = "signin"
  /\ UNCHANGED <<dbVars, idVars, local_events, blocked_cards, serverVars, realtime_event,
                 syncVars, propVars, cloudVars, mutations, faults, fresh,
                 backoff, wake, attempt, login_delay, auth_required, held, retryVars>>

\* run_worker, line 284: start the discovery thread
StartDiscovery ==
  /\ pc = "start_discovery"
  /\ disc' = "query"
  /\ pc' = "wait_room"
  /\ UNCHANGED <<dbVars, idVars, local_events, blocked_cards, serverVars, realtime_event,
                 syncLocals, rt, channel, filter_room, cloudVars,
                 mutations, faults, fresh,
                 backoff, wake, authVars, retryVars>>

\* a discovery thread that registers the device when it finds no row
DiscoverRegisters ==
  /\ disc = "query"
  /\ session
  /\ cloudUp
  /\ LET data == IF registry = {} THEN {[id |-> DeviceId, room_id |-> None]} ELSE registry
         row == CHOOSE r \in data : TRUE
     IN /\ registry' = data
        /\ device_id' = set_device(row.id, row.room_id)[1]
        /\ room_id' = set_device(row.id, row.room_id)[2]
        /\ disc' = IF Truthy(row.room_id) THEN "done" ELSE "query"
  /\ UNCHANGED <<dbVars, local_events, blocked_cards, serverVars, realtime_event, syncVars,
                 rt, channel, filter_room, session, cloudUp, rfid_cards, access_blocks,
                 access_events, mutations, faults, fresh,
                 backoff, wake, authVars, retryVars>>

\* a discovery thread that keeps querying after it committed a row with a room
DiscoverNoReturn ==
  /\ disc = "query"
  /\ session
  /\ cloudUp
  /\ registry # {}
  /\ LET row == CHOOSE r \in registry : TRUE
     IN /\ device_id' = set_device(row.id, row.room_id)[1]
        /\ room_id' = set_device(row.id, row.room_id)[2]
        /\ disc' = "query"
  /\ UNCHANGED <<dbVars, local_events, blocked_cards, serverVars, realtime_event, syncVars,
                 rt, channel, filter_room, cloudVars, mutations, faults, fresh,
                 backoff, wake, authVars, retryVars>>

\* _discover_or_register_device, one turn of the loop: without a session or a
\* row, or when the query raises, it sleeps and tries again; a row is
\* committed with set_device, and the thread returns when the row has a room
Discover ==
  /\ disc = "query"
  /\ session
  /\ cloudUp
  /\ registry # {}
  /\ LET row == CHOOSE r \in registry : TRUE
     IN /\ device_id' = set_device(row.id, row.room_id)[1]
        /\ room_id' = set_device(row.id, row.room_id)[2]
        /\ disc' = IF Truthy(row.room_id) THEN "done" ELSE "query"
  /\ UNCHANGED <<dbVars, local_events, blocked_cards, serverVars, realtime_event, syncVars,
                 rt, channel, filter_room, cloudVars, mutations, faults, fresh,
                 backoff, wake, authVars, retryVars>>

\* run_worker, lines 287-289: poll until get_room_id() is not None
WaitRoom ==
  /\ pc = "wait_room"
  /\ get_room_id # None
  /\ pc' = "seed"
  /\ UNCHANGED <<dbVars, idVars, local_events, blocked_cards, serverVars, realtime_event,
                 syncLocals, propVars, cloudVars, mutations, faults, fresh,
                 backoff, wake, authVars, retryVars>>

\* seed_blocked_from_cloud: the rows of access_blocks of this room replace the
\* mirror; a failed query or a rejected write is logged and changes nothing
SeedRows == RowsOf({b \in access_blocks : b[2] = get_room_id})

SeedWrites == cloudUp /\ ~RowsRejected(SeedRows)

seed_blocked_from_cloud(bc) ==
  IF SeedWrites THEN update_blocked_cards(bc, SeedRows) ELSE bc

\* run_worker, line 291: the initial reseed
SeedInitial ==
  /\ pc = "seed"
  /\ blocked_cards' = seed_blocked_from_cloud(blocked_cards)
  /\ fresh' = SeedWrites
  /\ pc' = "start_listener"
  /\ UNCHANGED <<dbVars, idVars, local_events, serverVars, realtime_event, syncLocals, propVars, cloudVars, mutations, faults,
                 backoff, wake, authVars, retryVars>>

\* run_worker, line 292: start the propagation thread
StartListener ==
  /\ pc = "start_listener"
  /\ rt' = "subscribe"
  /\ pc' = "sync"
  /\ UNCHANGED <<dbVars, idVars, local_events, blocked_cards, serverVars, realtime_event,
                 syncLocals, disc, channel, filter_room, cloudVars,
                 mutations, faults, fresh,
                 backoff, wake, authVars, retryVars>>

\* ---------------------------------------------------------- worker: sync loop
\* _get_valid_card_uids: the uids of rfid_cards, or set() when the query raises
get_valid_card_uids == IF cloudUp THEN rfid_cards ELSE {}

\* sync_with_supabase, line 99
SyncFetch ==
  /\ pc = "sync"
  /\ valid_card_uids' = get_valid_card_uids
  /\ pc' = "read"
  /\ fetch_failed' = ~cloudUp
  /\ UNCHANGED <<dbVars, idVars, local_events, blocked_cards, serverVars, realtime_event,
                 events, failed_batch, invalid_marked, mark_failed, cycle_read, propVars, cloudVars,
                 mutations,
                 faults, fresh,
                 backoff, wake, authVars, retryVars>>

\* the tuples of the given ids, newest first
RowTuplesNewestFirst(ev, ids) ==
  [k \in 1..Len(ids) |->
     [id |-> ev[ids[Len(ids) + 1 - k]].id, card_uid |-> ev[ids[Len(ids) + 1 - k]].card_uid,
      timestamp |-> ev[ids[Len(ids) + 1 - k]].timestamp,
      authorized |-> ev[ids[Len(ids) + 1 - k]].authorized]]

\* the (id, card_uid, timestamp, authorized) tuples of the given ids
RowTuples(ev, ids) ==
  [k \in 1..Len(ids) |->
     [id |-> ev[ids[k]].id, card_uid |-> ev[ids[k]].card_uid,
      timestamp |-> ev[ids[k]].timestamp, authorized |-> ev[ids[k]].authorized]]

\* sync_with_supabase, lines 102-105: get_valid_unsynced_events marks the
\* invalid rows and returns the valid ones; nothing to upload returns True
\* and the backoff returns to BACKOFF_MIN (run_worker, lines 298-299)
SyncRead ==
  /\ pc = "read"
  /\ local_events' = MarkInvalidBelow(local_events, valid_card_uids, Len(local_events) + 1)
  /\ events' = RowTuples(local_events, Ascending(ValidIds(local_events, valid_card_uids)))
  /\ pc' = IF events' = <<>> THEN "wait" ELSE "upload"
  /\ valid_card_uids' = {}
  /\ fetch_failed' = FALSE
  /\ failed_batch' = {}
  /\ invalid_marked' = invalid_marked \cup InvalidIds(local_events, valid_card_uids)
  /\ backoff' = IF events' = <<>> THEN BACKOFF_MIN ELSE backoff
  /\ wake' = "none"
  /\ cycle_read' = IF events' = <<>> THEN {} ELSE Unsynced(local_events)
  /\ UNCHANGED <<dbVars, idVars, blocked_cards, serverVars, realtime_event, propVars,
                 cloudVars, mutations, faults, fresh, mark_failed,
                 authVars, retryVars>>

\* get_valid_unsynced_events raising a storage error, at the SELECT (upto = 1)
\* or at the mark_event_as_invalid of row `upto`: the rows before it are
\* marked, the exception reaches run_worker's handler (lines 313-316)
SyncReadFails(upto) ==
  /\ pc = "read"
  /\ faults < MaxFaults
  /\ upto = 1 \/ upto \in InvalidIds(local_events, valid_card_uids)
  /\ faults' = faults + 1
  /\ local_events' = MarkInvalidBelow(local_events, valid_card_uids, upto)
  /\ pc' = "except"
  /\ valid_card_uids' = {}
  /\ fetch_failed' = FALSE
  /\ failed_batch' = {}
  /\ invalid_marked' = invalid_marked \cup
       {i \in InvalidIds(local_events, valid_card_uids) : i < upto}
  /\ wake' = begin_backoff(wake)
  /\ UNCHANGED <<dbVars, idVars, blocked_cards, serverVars, realtime_event, events, propVars,
                 cloudVars, mutations, fresh, mark_failed, cycle_read,
                 backoff, authVars, retryVars>>

\* a payload whose authorized is decided from the mirror when the batch is built
PayloadRecomputed(evs) ==
  [k \in 1..Len(evs) |->
     [card_uid |-> evs[k].card_uid, raspberry_id |-> get_device_id, room_id |-> get_room_id,
      event_time |-> evs[k].timestamp,
      authorized |-> ~is_card_blocked(blocked_cards, evs[k].card_uid, OrEmpty(get_room_id))]]

\* sync_with_supabase, lines 109-119: the payload of the batch insert
Payload(evs) ==
  [k \in 1..Len(evs) |->
     [card_uid |-> evs[k].card_uid, raspberry_id |-> get_device_id, room_id |-> get_room_id,
      event_time |-> evs[k].timestamp, authorized |-> (evs[k].authorized # 0)]]

\* the ids list built at line 119
EventIds(evs) == {evs[k].id : k \in 1..Len(evs)}

\* sync_with_supabase, line 122: one insert of the whole payload; when it
\* raises the cycle returns False (lines 126-128)
SyncUpload ==
  /\ pc = "upload"
  /\ IF cloudUp
     THEN /\ access_events' = access_events \o Payload(events)
          /\ pc' = "mark"
          /\ UNCHANGED events
     ELSE /\ pc' = "backoff"
          /\ events' = <<>>
          /\ UNCHANGED access_events
  /\ failed_batch' = IF cloudUp THEN failed_batch ELSE EventIds(events)
  /\ wake' = IF cloudUp THEN wake ELSE begin_backoff(wake)
  /\ cycle_read' = IF cloudUp THEN cycle_read ELSE {}
  /\ UNCHANGED <<dbVars, idVars, local_events, blocked_cards, serverVars, realtime_event,
                 valid_card_uids, fetch_failed, invalid_marked, mark_failed, propVars, session,
                 cloudUp, registry, rfid_cards,
                 access_blocks, mutations, faults, fresh,
                 backoff, authVars, retryVars>>

\* sync_with_supabase, lines 123-125: mark the batch and return True;
\* run_worker, lines 298-299: the backoff returns to BACKOFF_MIN
SyncMark ==
  /\ pc = "mark"
  /\ local_events' = mark_as_synced(local_events, EventIds(events))
  /\ events' = <<>>
  /\ pc' = "wait"
  /\ backoff' = BACKOFF_MIN
  /\ cycle_read' = {}
  /\ UNCHANGED <<dbVars, idVars, blocked_cards, serverVars, realtime_event, valid_card_uids,
                 fetch_failed, failed_batch, invalid_marked, mark_failed, propVars, cloudVars,
                 mutations, faults, fresh, wake, authVars, retryVars>>

\* mark_as_synced raising a storage error after the insert succeeded: nothing
\* is committed and the cycle returns False (lines 126-128)
SyncMarkFails ==
  /\ pc = "mark"
  /\ faults < MaxFaults
  /\ faults' = faults + 1
  /\ events' = <<>>
  /\ pc' = "backoff"
  /\ failed_batch' = EventIds(events)
  /\ mark_failed' = mark_failed \cup EventIds(events)
  /\ cycle_read' = {}
  /\ wake' = begin_backoff(wake)
  /\ UNCHANGED <<dbVars, idVars, local_events, blocked_cards, serverVars, realtime_event,
                 valid_card_uids, fetch_failed, invalid_marked, propVars, cloudVars, mutations, fresh,
                 backoff, authVars, retryVars>>

\* run_worker, lines 300-302: after a failed cycle, sleep the backoff and
\* double it up to BACKOFF_MAX
SyncBackoff ==
  /\ pc = "backoff"
  /\ pc' = "wait"
  /\ backoff' = next_backoff(backoff)
  /\ wake' = end_backoff(wake)
  /\ UNCHANGED <<dbVars, idVars, local_events, blocked_cards, serverVars, realtime_event,
                 syncLocals, propVars, cloudVars, mutations, faults, fresh,
                 authVars, retryVars>>

\* a handler that logs the exception and leaves the loop
SyncExceptExits ==
  /\ pc = "except"
  /\ pc' = "exit"
  /\ UNCHANGED <<dbVars, idVars, local_events, blocked_cards, serverVars, realtime_event,
                 syncLocals, propVars, cloudVars, mutations, faults, fresh,
                 backoff, wake, authVars, retryVars>>

\* run_worker, lines 313-316: after an exception, sleep the backoff, double
\* it up to BACKOFF_MAX and loop
SyncExcept ==
  /\ pc = "except"
  /\ pc' = "sync"
  /\ backoff' = next_backoff(backoff)
  /\ wake' = end_backoff(wake)
  /\ UNCHANGED <<dbVars, idVars, local_events, blocked_cards, serverVars, realtime_event,
                 syncLocals, propVars, cloudVars, mutations, faults, fresh,
                 authVars, retryVars>>

\* time.sleep(SYNC_INTERVAL) in the place of the wait on the event
SyncSleep(how) ==
  /\ pc = "wait"
  /\ pc' = "clear"
  /\ wake' = IF how = "timeout" /\ wake # "none" THEN "interval" ELSE wake
  /\ UNCHANGED <<dbVars, idVars, local_events, blocked_cards, serverVars, realtime_event,
                 syncLocals, propVars, cloudVars, mutations, faults, fresh,
                 backoff, authVars, retryVars>>

\* run_worker, line 306: realtime_event.wait(timeout=SYNC_INTERVAL) returns
\* at once when the event is set, and otherwise when SYNC_INTERVAL has elapsed
\* without a set
SyncWait(how) ==
  /\ pc = "wait"
  /\ \/ how = "signal" /\ realtime_event
     \/ how = "timeout" /\ ~realtime_event
  /\ pc' = "clear"
  /\ wake' = IF how = "timeout" /\ wake # "none" THEN "interval" ELSE wake
  /\ UNCHANGED <<dbVars, idVars, local_events, blocked_cards, serverVars, realtime_event,
                 syncLocals, propVars, cloudVars, mutations, faults, fresh,
                 backoff, authVars, retryVars>>

\* run_worker, lines 309-311: clear the event when it is set, then loop
SyncClear ==
  /\ pc = "clear"
  /\ realtime_event' = FALSE
  /\ pc' = "sync"
  /\ UNCHANGED <<dbVars, idVars, local_events, blocked_cards, serverVars, syncLocals,
                 propVars, cloudVars, mutations, faults, fresh,
                 backoff, wake, authVars, retryVars>>

\* ------------------------------------------------------ worker: propagation
\* start_realtime_listener: subscribe to access_blocks filtered by the room;
\* on an error naming the sync client start the poller, on any other error
\* start the retry thread, whose backoff starts at BACKOFF_MIN (line 196)
Subscribe(outcome) ==
  /\ rt = "subscribe"
  /\ \/ /\ outcome = "ok"
        /\ cloudUp
        /\ rt' = "subscribed"
        /\ filter_room' = get_room_id
        /\ subscriptions' = subscriptions + 1
        /\ rt_fails' = 0
        /\ UNCHANGED <<pollers, retriers, rt_backoff>>
     \/ /\ outcome = "sync client"
        /\ rt' = "poll"
        /\ pollers' = pollers + 1
        /\ rt_fails' = 0
        /\ UNCHANGED <<filter_room, subscriptions, retriers, rt_backoff>>
     \/ /\ outcome = "error"
        /\ ~cloudUp
        /\ rt' = "retry"
        /\ retriers' = retriers + 1
        /\ rt_backoff' = BACKOFF_MIN
        /\ rt_fails' = IF rt_fails < MaxFailures THEN rt_fails + 1 ELSE rt_fails
        /\ UNCHANGED <<filter_room, subscriptions, pollers>>
  /\ UNCHANGED <<dbVars, idVars, local_events, blocked_cards, serverVars, realtime_event,
                 syncVars, disc, channel, cloudVars, mutations, faults, fresh,
                 backoff, wake, authVars>>

\* a retry thread that does not return after start_realtime_listener
RetrySubscribeNoReturn ==
  /\ rt = "retry"
  /\ rt' = "subscribe"
  /\ UNCHANGED <<dbVars, idVars, local_events, blocked_cards, serverVars, realtime_event,
                 syncVars, disc, channel, filter_room, cloudVars, mutations, faults, fresh,
                 backoff, wake, authVars, retryVars>>

\* _retry_realtime_subscribe_backoff, lines 200-202: sleep the backoff, call
\* start_realtime_listener and return; the call catches its own errors, so
\* lines 203-206 are never reached
RetrySubscribe ==
  /\ rt = "retry"
  /\ rt' = "subscribe"
  /\ retriers' = retriers - 1
  /\ UNCHANGED <<dbVars, idVars, local_events, blocked_cards, serverVars, realtime_event,
                 syncVars, disc, channel, filter_room, cloudVars, mutations, faults, fresh,
                 backoff, wake, authVars, rt_backoff, rt_fails, subscriptions, pollers>>

\* a poller that returns when its reseed fails
PollSeedStopsOnError ==
  /\ rt = "poll"
  /\ blocked_cards' = seed_blocked_from_cloud(blocked_cards)
  /\ fresh' = SeedWrites
  /\ realtime_event' = (realtime_event \/ SeedWrites)
  /\ wake' = IF SeedWrites THEN raise_wake(wake) ELSE wake
  /\ rt' = IF SeedWrites THEN "poll_sleep" ELSE "stopped"
  /\ UNCHANGED <<dbVars, idVars, local_events, serverVars, syncVars, disc, channel,
                 filter_room, cloudVars, mutations, faults,
                 backoff, authVars, retryVars>>

\* _poll_blocked_worker, lines 186-189: reseed and set the event
PollSeed ==
  /\ rt = "poll"
  /\ blocked_cards' = seed_blocked_from_cloud(blocked_cards)
  /\ fresh' = SeedWrites
  /\ realtime_event' = TRUE
  /\ rt' = "poll_sleep"
  /\ wake' = raise_wake(wake)
  /\ UNCHANGED <<dbVars, idVars, local_events, serverVars, syncVars, disc, channel,
                 filter_room, cloudVars, mutations, faults,
                 backoff, authVars, retryVars>>

\* _poll_blocked_worker, line 192: time.sleep(interval)
PollSleep ==
  /\ rt = "poll_sleep"
  /\ rt' = "poll"
  /\ UNCHANGED <<dbVars, idVars, local_events, blocked_cards, serverVars, realtime_event,
                 syncVars, disc, channel, filter_room, cloudVars, mutations, faults, fresh,
                 backoff, wake, authVars, retryVars>>

\* the mirror after _handle_permission_change applied the payload
ApplyChange(bc, n) ==
  LET r == IF Truthy(n.room_id) THEN n.room_id ELSE OrEmpty(get_room_id)
  IN IF ~Truthy(n.card_uid) THEN bc
     ELSE IF n.eventType \in {"INSERT", "UPDATE"} THEN upsert_blocked_card(bc, n.card_uid, r)
     ELSE IF n.eventType = "DELETE" THEN remove_blocked_card(bc, n.card_uid, r)
     ELSE bc

\* _handle_permission_change: the next notification of the channel is applied
\* to the mirror and the event is set
HandlePermissionChange ==
  /\ rt = "subscribed"
  /\ channel # <<>>
  /\ blocked_cards' = ApplyChange(blocked_cards, Head(channel))
  /\ channel' = Tail(channel)
  /\ realtime_event' = TRUE
  /\ wake' = raise_wake(wake)
  /\ UNCHANGED <<dbVars, idVars, local_events, serverVars, syncVars, disc, rt, filter_room,
                 cloudVars, mutations, faults, fresh,
                 backoff, authVars, retryVars>>

\* _handle_permission_change, lines 153-154: the write of the mirror raises a
\* storage error; it is logged, the mirror is unchanged and the event is not set
HandlePermissionChangeFails ==
  /\ rt = "subscribed"
  /\ channel # <<>>
  /\ Truthy(Head(channel).card_uid)
  /\ faults < MaxFaults
  /\ faults' = faults + 1
  /\ channel' = Tail(channel)
  /\ UNCHANGED <<dbVars, idVars, local_events, blocked_cards, serverVars, realtime_event,
                 syncVars, disc, rt, filter_room, cloudVars, mutations, fresh,
                 backoff, wake, authVars, retryVars>>

\* ---------------------------------------------------------------- the cloud
\* the change feed: a subscribed channel receives the changes of its room
Notify(type, c, r) ==
  IF rt = "subscribed" /\ r = filter_room
  THEN Append(channel, [eventType |-> type, card_uid |-> c, room_id |-> r])
  ELSE channel

\* the dashboard blocks a card in a room (frontend _block_user_card: upsert)
BlockCard(c, r) ==
  /\ mutations < MaxMutations
  /\ mutations' = mutations + 1
  /\ access_blocks' = access_blocks \cup {<<c, r>>}
  /\ channel' = Notify(IF <<c, r>> \in access_blocks THEN "UPDATE" ELSE "INSERT", c, r)
  /\ fresh' = FALSE
  /\ UNCHANGED <<dbVars, idVars, local_events, blocked_cards, serverVars, realtime_event,
                 syncVars, disc, rt, filter_room, session, cloudUp, registry,
                 rfid_cards, access_events, faults,
                 backoff, wake, authVars, retryVars>>

\* the dashboard removes a block (frontend _unblock_user_card: delete)
UnblockCard(c, r) ==
  /\ mutations < MaxMutations
  /\ <<c, r>> \in access_blocks
  /\ mutations' = mutations + 1
  /\ access_blocks' = access_blocks \ {<<c, r>>}
  /\ channel' = Notify("DELETE", c, r)
  /\ fresh' = FALSE
  /\ UNCHANGED <<dbVars, idVars, local_events, blocked_cards, serverVars, realtime_event,
                 syncVars, disc, rt, filter_room, session, cloudUp, registry,
                 rfid_cards, access_events, faults,
                 backoff, wake, authVars, retryVars>>

\* an administrator registers a card in rfid_cards
RegisterCard(c) ==
  /\ c \notin rfid_cards
  /\ rfid_cards' = rfid_cards \cup {c}
  /\ UNCHANGED <<dbVars, idVars, local_events, blocked_cards, serverVars, realtime_event,
                 syncVars, propVars, session, cloudUp, registry, access_blocks,
                 access_events, mutations, faults, fresh,
                 backoff, wake, authVars, retryVars>>

\* an administrator creates or changes the device's row in raspberry_devices
Provision(data) ==
  /\ disc # "done"
  /\ data # registry
  /\ data # {}
  /\ registry' = data
  /\ UNCHANGED <<dbVars, idVars, local_events, blocked_cards, serverVars, realtime_event,
                 syncVars, propVars, session, cloudUp, rfid_cards, access_blocks,
                 access_events, mutations, faults, fresh,
                 backoff, wake, authVars, retryVars>>

\* an administrator saves the device's row with an empty room_id
ProvisionEmptyRoom == Provision({EmptyRoomRow})

\* the cloud becomes unreachable, or reachable again
CloudToggle ==
  /\ cloudUp' = ~cloudUp
  /\ UNCHANGED <<dbVars, idVars, local_events, blocked_cards, serverVars, realtime_event,
                 syncVars, propVars, session, registry, rfid_cards, access_blocks,
                 access_events, mutations, faults, fresh,
                 backoff, wake, authVars, retryVars>>

\* ------------------------------------------------------------ specification
Reject == \E b \in Bodies : ReceiveRfidRejected(b)

Scan == \E b \in Bodies : ReceiveRfid(b)

Ingest ==
  \/ Reject
  \/ Scan

Consumer ==
  \/ \E f \in BOOLEAN : QueueWorkerWrite(f)
  \/ QueueWorkerSet

Bootstrap ==
  \/ Login
  \/ StartDiscovery
  \/ Discover
  \/ WaitRoom
  \/ SeedInitial
  \/ StartListener

SyncLoop ==
  \/ SyncFetch
  \/ SyncRead
  \/ \E k \in 1..MaxScans : SyncReadFails(k)
  \/ SyncUpload
  \/ SyncMark
  \/ SyncMarkFails
  \/ SyncBackoff
  \/ SyncExcept
  \/ \E how \in {"signal", "timeout"} : SyncWait(how)
  \/ SyncClear

Propagation ==
  \/ \E o \in {"ok", "sync client", "error"} : Subscribe(o)
  \/ RetrySubscribe
  \/ PollSeed
  \/ PollSleep
  \/ HandlePermissionChange

\* the sign-in attempts of the initial login that fail, and the renewal thread
Auth ==
  \/ LoginFails
  \/ AuthSignIn
  \/ AuthRefresh
  \/ AuthBackoff

Admin ==
  \/ \E c \in Cards, r \in Rooms : BlockCard(c, r)
  \/ \E c \in Cards, r \in Rooms : UnblockCard(c, r)

Cloud ==
  \/ \E d \in RegistryData : Provision(d)
  \/ CloudToggle

Next ==
  \/ Ingest
  \/ Auth
  \/ HandlePermissionChangeFails
  \/ Consumer
  \/ Bootstrap
  \/ SyncLoop
  \/ Propagation
  \/ Admin
  \/ \E c \in Cards : RegisterCard(c)
  \/ Cloud
  \/ ProvisionEmptyRoom

\* the whole agent with its environment
Spec == Init /\ [][Next]_vars

\* the outbox path: accepted scans, the consumer, bootstrap and the sync
\* loop, in the behaviours where the cloud's card registry and block list do
\* not change and the propagation thread is not scheduled
NextOutbox ==
  \/ Scan
  \/ Consumer
  \/ Bootstrap
  \/ SyncLoop
  \/ Cloud

SpecOutbox == Init /\ [][NextOutbox]_vars

\* the intake path: every request, the consumer and bootstrap, in the
\* behaviours where the sync loop has not started its first cycle
NextIngest ==
  \/ Ingest
  \/ Consumer
  \/ Bootstrap
  \/ Cloud

SpecIngest == Init /\ [][NextIngest]_vars

\* the gate of run_worker: the outbox path with a registry whose row can
\* also carry an empty room_id, and a cloud that stays reachable
NextGate ==
  \/ Scan
  \/ Consumer
  \/ Bootstrap
  \/ SyncLoop
  \/ \E d \in RegistryData : Provision(d)
  \/ ProvisionEmptyRoom

SpecGate == Init /\ [][NextGate]_vars

\* the outbox path while the administrator registers cards: accepted scans,
\* the consumer, bootstrap with a device row that carries the room, and the
\* sync loop, with a cloud that stays reachable
NextRegistrar ==
  \/ Scan
  \/ Consumer
  \/ Bootstrap
  \/ SyncLoop
  \/ Provision({[id |-> DeviceId, room_id |-> Room]})
  \/ \E c \in Cards : RegisterCard(c)

SpecRegistrar == Init /\ [][NextRegistrar]_vars

\* the propagation channel: bootstrap, the listener, poller and retry
\* threads with the storage errors of the handler, and the dashboard's
\* changes of the block list, in the behaviours where no request arrives and
\* the sync loop is not scheduled
NextPropagation ==
  \/ Bootstrap
  \/ Propagation
  \/ HandlePermissionChangeFails
  \/ Admin
  \/ Cloud

SpecPropagation == Init /\ [][NextPropagation]_vars

\* the poller is a daemon thread whose sleeps are bounded
FairPropagation == SpecPropagation /\ WF_vars(PollSeed) /\ WF_vars(PollSleep)

\* authentication: the initial login with its failed attempts, the renewal
\* thread and the rest of bootstrap
NextAuth ==
  \/ Bootstrap
  \/ Auth
  \/ Cloud

SpecAuth == Init /\ [][NextAuth]_vars

\* startup under either setting of AUTH_REQUIRED: bootstrap, the initial
\* login and the renewal thread
SpecStartup == (Init \/ InitAnon) /\ [][NextAuth]_vars

\* the mirror path: ingestion decisions, bootstrap, propagation and the
\* dashboard's changes of the block list, in the behaviours where the
\* consumer and the sync loop are not scheduled
NextMirror ==
  \/ Ingest
  \/ Bootstrap
  \/ Propagation
  \/ Admin
  \/ Cloud

SpecMirror == Init /\ [][NextMirror]_vars

\* the sync loop and the consumer keep running: the threads are daemon
\* threads of a process that does not exit, and every wait of the loop is
\* bounded by a timeout
FairOutbox == SpecOutbox /\ WF_vars(SyncLoop) /\ WF_vars(Consumer)

\* the ingestion path with a consumer thread that is scheduled: _queue_worker
\* blocks in event_queue.get() only while the queue is empty
FairIngest == SpecIngest /\ WF_vars(Consumer)

\* ------------------------------------------------- db_local, statement level
\* the variables of the agent, which the statements of db_local leave alone
agentVars ==
  <<idVars, local_events, blocked_cards, serverVars, realtime_event, syncVars,
    propVars, cloudVars, mutations, faults, fresh, backoff, wake, authVars,
    retryVars>>

\* the longest list of rows a reseed query returns
MaxRows == 2

\* the rooms of the rows of the mirror: the legacy default room and the
\* device's room
StoreRooms == {DEFAULT_ROOM_ID, Room}

\* the lists of (card_uid, room_id) rows the query of seed_blocked_from_cloud
\* can return for the device's room; the cloud can repeat a pair or return a
\* null card_uid
FetchedRows == UNION {[1..n -> (Cards \cup {None}) \X {Room}] : n \in 0..MaxRows}

\* init_local_db, lines 19-42: CREATE TABLE IF NOT EXISTS for both tables
create_tables(s) ==
  [s EXCEPT !.events_shape = IF @ = "absent" THEN "current" ELSE @,
            !.blocked_shape = IF @ = "absent" THEN "current" ELSE @]

\* _migrate_local_events_add_authorized: ADD COLUMN authorized DEFAULT 1
migrate_local_events_add_authorized(s) ==
  IF s.events_shape = "legacy"
  THEN [s EXCEPT !.events_shape = "current",
                 !.events = {[id |-> e.id, card_uid |-> e.card_uid, authorized |-> 1,
                              synced |-> e.synced] : e \in s.events}]
  ELSE s

\* the migration without its backfill loop: rename, recreate, drop
migrate_blocked_cards_no_backfill(s) ==
  IF s.blocked_shape = "legacy"
  THEN [s EXCEPT !.blocked_shape = "current", !.blocked = {}]
  ELSE s

\* _migrate_blocked_cards_add_room: rename, recreate, copy every old row
\* under DEFAULT_ROOM_ID with its updated_at, drop the old table
migrate_blocked_cards_add_room(s) ==
  IF s.blocked_shape = "legacy"
  THEN [s EXCEPT !.blocked_shape = "current",
                 !.blocked = {[card_uid |-> row.card_uid, room_id |-> DEFAULT_ROOM_ID,
                               updated_at |-> row.updated_at] : row \in s.blocked}]
  ELSE s

\* init_local_db(db_path)
init_local_db(s) ==
  migrate_blocked_cards_add_room(migrate_local_events_add_authorized(create_tables(s)))

\* a plain INSERT of the row, which keeps a row that has the same key
UpsertBlockedRowNoReplace(tbl, c, t, r) ==
  tbl \cup {[card_uid |-> c, room_id |-> r, updated_at |-> t]}

\* INSERT OR REPLACE INTO blocked_cards: the row of the same key goes, the
\* new row comes
UpsertBlockedRow(tbl, c, t, r) ==
  {row \in tbl : <<row.card_uid, row.room_id>> # <<c, r>>}
    \cup {[card_uid |-> c, room_id |-> r, updated_at |-> t]}

\* DELETE FROM blocked_cards WHERE card_uid = ? AND room_id = ?
RemoveBlockedRow(tbl, c, r) ==
  {row \in tbl : <<row.card_uid, row.room_id>> # <<c, r>>}

\* what a connection that could read uncommitted rows would see
ReaderViewUncommitted ==
  IF tx.state = "open"
  THEN {[card_uid |-> k[1], room_id |-> k[2], updated_at |-> 1] : k \in tx.work}
  ELSE store.blocked

\* what the SELECT of another connection sees: the committed rows
ReaderView == store.blocked

\* init_local_db at the start of the process, no reseed being under way
InitLocalDb ==
  /\ tx.state # "open"
  /\ store' = init_local_db(store)
  /\ UNCHANGED <<tx, seen, agentVars>>

\* upsert_blocked_card(db, card_uid, updated_at, room_id); without an
\* updated_at the row gets CURRENT_TIMESTAMP, which is one of Times too
UpsertBlockedCard(c, t, r) ==
  /\ store.blocked_shape = "current"
  /\ tx.state # "open"
  /\ store' = [store EXCEPT !.blocked = UpsertBlockedRow(@, c, t, r)]
  /\ UNCHANGED <<tx, seen, agentVars>>

\* remove_blocked_card(db, card_uid, room_id)
RemoveBlockedCard(c, r) ==
  /\ store.blocked_shape = "current"
  /\ tx.state # "open"
  /\ store' = [store EXCEPT !.blocked = RemoveBlockedRow(@, c, r)]
  /\ UNCHANGED <<tx, seen, agentVars>>

\* seed_blocked_from_cloud, lines 62-69 and 79-81: the query raises, the
\* exception is printed, update_blocked_cards is not called
SeedQueryFails ==
  /\ store.blocked_shape = "current"
  /\ tx.state # "open"
  /\ tx' = [state |-> "query_failed", rows |-> <<>>, work |-> {}, todo |-> <<>>]
  /\ UNCHANGED <<store, seen, agentVars>>

\* update_blocked_cards, line 203: DELETE FROM blocked_cards opens the
\* transaction; the deletion is in the transaction, not in the file
UpdateDelete(rows) ==
  /\ store.blocked_shape = "current"
  /\ tx.state # "open"
  /\ tx' = [state |-> "open", rows |-> rows, work |-> {}, todo |-> rows]
  /\ UNCHANGED <<store, seen, agentVars>>

\* executemany on a connection that publishes every statement at once: the
\* rows written before the one that raises are in the file, the old rows gone
UpdateInsertAutocommit ==
  /\ tx.state = "open"
  /\ tx.todo # <<>>
  /\ LET p == Head(tx.todo)
     IN IF p[1] = None \/ p[2] = None \/ p \in tx.work
        THEN /\ tx' = [tx EXCEPT !.state = "rolled_back", !.work = {}, !.todo = <<>>]
             /\ store' = [store EXCEPT !.blocked =
                            {[card_uid |-> k[1], room_id |-> k[2], updated_at |-> 1] :
                               k \in tx.work}]
        ELSE /\ tx' = [tx EXCEPT !.work = @ \cup {p}, !.todo = Tail(@)]
             /\ UNCHANGED store
  /\ UNCHANGED <<seen, agentVars>>

\* update_blocked_cards, lines 204-207: executemany inserts the next row; a
\* NULL or a repeated key raises, the connection is dropped without a commit
\* and the transaction is rolled back
UpdateInsert ==
  /\ tx.state = "open"
  /\ tx.todo # <<>>
  /\ LET p == Head(tx.todo)
     IN IF p[1] = None \/ p[2] = None \/ p \in tx.work
        THEN tx' = [tx EXCEPT !.state = "rolled_back", !.work = {}, !.todo = <<>>]
        ELSE tx' = [tx EXCEPT !.work = @ \cup {p}, !.todo = Tail(@)]
  /\ UNCHANGED <<store, seen, agentVars>>

\* update_blocked_cards without its DELETE: the commit adds the new rows to
\* the rows the file had
UpdateCommitKeepsOld(t) ==
  /\ tx.state = "open"
  /\ tx.todo = <<>>
  /\ store' = [store EXCEPT !.blocked =
                 {row \in @ : <<row.card_uid, row.room_id>> \notin tx.work} \cup
                 {[card_uid |-> k[1], room_id |-> k[2], updated_at |-> t] : k \in tx.work}]
  /\ tx' = [tx EXCEPT !.state = "committed"]
  /\ UNCHANGED <<seen, agentVars>>

\* update_blocked_cards, line 208: conn.commit() publishes the new rows,
\* each with the CURRENT_TIMESTAMP default
UpdateCommit(t) ==
  /\ tx.state = "open"
  /\ tx.todo = <<>>
  /\ store' = [store EXCEPT !.blocked =
                 {[card_uid |-> k[1], room_id |-> k[2], updated_at |-> t] : k \in tx.work}]
  /\ tx' = [tx EXCEPT !.state = "committed"]
  /\ UNCHANGED <<seen, agentVars>>

\* is_card_blocked(db, card_uid, room_id) on a connection of its own, at any
\* moment, a reseed being under way or not
IsCardBlocked(c, r) ==
  /\ store.blocked_shape = "current"
  /\ seen' = [room_id |-> r,
              result |-> is_card_blocked(Keys(ReaderView), c, r),
              reseeding |-> tx.state = "open",
              in_old |-> <<c, r>> \in Keys(store.blocked),
              in_new |-> \E i \in DOMAIN tx.rows : tx.rows[i] = <<c, r>>]
  /\ UNCHANGED <<store, tx, agentVars>>

\* the files init_local_db can find: none, one of the legacy shape, one of
\* the current shape
InitStore ==
  /\ store \in {FreshStore, CurrentStore}
                 \cup {LegacyStore(evs, uids) : evs \in {{}, {1}}, uids \in LegacyBlocked}
  /\ tx = NoTx
  /\ seen = NoRead
  /\ device_id = None /\ room_id = None
  /\ local_events = <<>> /\ blocked_cards = {}
  /\ event_queue = <<>> /\ responses = <<>> /\ qw = "get" /\ write_failed = {}
  /\ realtime_event = FALSE /\ pc = "login"
  /\ valid_card_uids = {} /\ events = <<>>
  /\ fetch_failed = FALSE /\ failed_batch = {} /\ invalid_marked = {} /\ mark_failed = {}
  /\ cycle_read = {}
  /\ disc = "off" /\ rt = "off" /\ channel = <<>> /\ filter_room = None
  /\ session = FALSE /\ cloudUp = TRUE /\ registry = {} /\ rfid_cards = {"X"}
  /\ access_blocks = {<<"X", Room>>} /\ access_events = <<>>
  /\ mutations = 0 /\ faults = 0 /\ fresh = FALSE
  /\ backoff = BACKOFF_MIN /\ wake = "none"
  /\ attempt = 1 /\ login_delay = 0 /\ auth = "off" /\ auth_backoff = BACKOFF_MIN
  /\ auth_required = AUTH_REQUIRED /\ held = FALSE
  /\ rt_backoff = BACKOFF_MIN /\ rt_fails = 0
  /\ subscriptions = 0 /\ pollers = 0 /\ retriers = 0

\* the writers of the mirror, one entry at a time
Patch ==
  \/ \E c \in Cards, t \in Times, r \in StoreRooms : UpsertBlockedCard(c, t, r)
  \/ \E c \in Cards, r \in StoreRooms : RemoveBlockedCard(c, r)

\* seed_blocked_from_cloud with update_blocked_cards, statement by statement
Reseed ==
  \/ SeedQueryFails
  \/ \E rows \in FetchedRows : UpdateDelete(rows)
  \/ UpdateInsert
  \/ \E t \in Times : UpdateCommit(t)

\* the readers of the mirror
Reader == \E c \in Cards, r \in StoreRooms : IsCardBlocked(c, r)

\* db_local alone: the calls that the threads of the agent make on the file
NextStore ==
  \/ InitLocalDb
  \/ Patch
  \/ Reseed
  \/ Reader

SpecStore == InitStore /\ [][NextStore]_vars

\* ------------------------------------------------------------------- claims
\* whether the record was part of a successful insert into access_events
Uploaded(cloud, rec) == \E k \in DOMAIN cloud : cloud[k].event_time = rec.timestamp

\* the program counters of the sync loop (run_worker, lines 294-316)
LoopPcs == {"sync", "read", "upload", "mark", "backoff", "except", "wait", "clear"}

\* C1: provided that from some point on the cloud calls of the sync cycle
\* succeed, every record that insert_local_event has written is eventually
\* marked synced by the running sync loop, after a successful insert or as
\* an invalid reference.
C1_OutboxCompleteness ==
  (<>[]cloudUp) =>
    \A i \in 1..MaxScans :
      [](pc \in LoopPcs /\ i \in DOMAIN local_events
           => <>(i \in DOMAIN local_events /\ local_events[i].synced = 1))

\* C1's case: a cycle failed after its insert and left the record unsynced,
\* and a later cycle uploaded it again and marked it
C1_Witness ==
  /\ Len(local_events) = 1
  /\ local_events[1].synced = 1
  /\ 1 \notin invalid_marked
  /\ Len(access_events) = 2
  /\ failed_batch = {}

\* C2: in a sync cycle in which a cloud call fails (the rfid_cards query or
\* the batch insert), no record goes from synced=0 to synced=1 without
\* having been part of a successful cloud insert.
C2_NoDiscardOnCloudFailure ==
  [][\A i \in DOMAIN local_events :
       ( /\ fetch_failed \/ (pc = "upload" /\ ~cloudUp)
         /\ local_events[i].synced = 0
         /\ local_events'[i].synced = 1 )
       => Uploaded(access_events', local_events[i])]_vars

\* what C3 and C4 say of every step: a payload is one insert of the cycle's
\* candidates, and a batch that was not marked is still unsynced
BatchStep ==
  /\ access_events' # access_events =>
       pc = "upload" /\ access_events' = access_events \o Payload(events)
  /\ failed_batch' \subseteq Unsynced(local_events')
  /\ (pc = "upload" /\ pc' = "backoff") =>
       /\ local_events' = local_events
       /\ failed_batch' = EventIds(events)
       /\ access_events' = access_events

\* C3 as stated: the candidates go out as a single insert; if the insert
\* succeeds every candidate id is marked synced when the cycle ends; if it
\* fails none is marked and all are still unsynced for the next cycle.
C3_AllOrNothing ==
  [][/\ BatchStep
     /\ (pc = "mark" /\ pc' # "mark") =>
          \A id \in EventIds(events) : local_events'[id].synced = 1]_vars

\* C3 amended: as C3, but after a successful insert the candidates are all
\* marked only if mark_as_synced completes; when it raises, none of them is
\* marked and all are still unsynced for the next cycle.
C3_AllOrNothingAmended ==
  [][/\ BatchStep
     /\ (pc = "mark" /\ pc' = "wait") =>
          /\ \A id \in EventIds(events) : local_events'[id].synced = 1
          /\ \A i \in DOMAIN local_events :
               i \notin EventIds(events) => local_events'[i] = local_events[i]
     /\ (pc = "mark" /\ pc' # "mark" /\ pc' # "wait") =>
          /\ local_events' = local_events
          /\ failed_batch' = EventIds(events)]_vars

\* C3's case: one batch of two records was inserted and marked
C3_Witness ==
  /\ pc = "wait"
  /\ Len(local_events) = 2
  /\ Len(access_events) = 2
  /\ \A i \in DOMAIN local_events : local_events[i].synced = 1

\* what C4 says of the read of a cycle: the unsynced rows are split by the
\* fetched set, the rows outside it are marked synced at once, and no such
\* row is ever a candidate of a payload
PartitionStep ==
  /\ (pc = "read" /\ pc' \in {"wait", "upload"}) =>
       /\ EventIds(events') =
            {i \in Unsynced(local_events) : local_events[i].card_uid \in valid_card_uids}
       /\ \A i \in Unsynced(local_events) :
            local_events[i].card_uid \notin valid_card_uids =>
              local_events'[i].synced = 1 /\ i \in invalid_marked'
  /\ \A i \in invalid_marked' : i \notin EventIds(events')
  /\ access_events' # access_events =>
       pc = "upload" /\ access_events' = access_events \o Payload(events)

RecordsOf(k) == {i \in DOMAIN local_events : local_events[i].req = k}

\* whether the item of request k is still on the intake queue
Queued(k) == \E j \in DOMAIN event_queue : event_queue[j].req = k

\* C6: is_card_blocked returns false for every card_uid whenever room_id is
\* empty or None, whatever the mirror contains, so POST /rfid answers
\* authorized=true for every scan received while room_id is unresolved.
C6_FailOpen ==
  /\ \A c \in Cards, r \in {None, ""} : ~is_card_blocked(blocked_cards, c, r)
  /\ \A k \in DOMAIN responses :
       (responses[k].card_uid \in Cards /\ responses[k].room \in {None, ""}) =>
         responses[k].status = 202 /\ responses[k].authorized = TRUE

\* C6's case: a scan of a card that the mirror lists under the empty room
\* was answered while room_id was unresolved
C6_Witness ==
  \E k \in DOMAIN responses :
    /\ responses[k].room = None
    /\ responses[k].listed
    /\ responses[k].status = 202
    /\ <<responses[k].card_uid, DEFAULT_ROOM_ID>> \in blocked_cards

\* C7: for a POST /rfid carrying card_uid c with resolved room r, the
\* response has authorized = false exactly when (c, r) is in the mirror at
\* lookup time, and exactly one record {c, that authorized value} is
\* persisted by the consumer once it has taken the item, unsynced until the
\* sync loop handles it.
C7_DecisionAndRecord ==
  \A k \in DOMAIN responses :
    (responses[k].card_uid \in Cards /\ responses[k].room \notin {None, ""}) =>
      /\ responses[k].status = 202
      /\ (responses[k].authorized = FALSE) <=> responses[k].listed
      /\ Cardinality(RecordsOf(k)) = IF Queued(k) THEN 0 ELSE 1
      /\ \A i \in RecordsOf(k) :
           /\ local_events[i].card_uid = responses[k].card_uid
           /\ local_events[i].authorized = (IF responses[k].authorized THEN 1 ELSE 0)
           /\ local_events[i].synced = 1 =>
                i \in invalid_marked \/ Uploaded(access_events, local_events[i])

\* C8: a POST /rfid whose body has no card_uid is answered with 400 and an
\* error, changes nothing but the response sent, and nothing is enqueued and
\* no record is ever created for it.
C8_ValidationRejection ==
  [][/\ \A k \in DOMAIN responses' :
          /\ responses'[k].card_uid \in {"", None} =>
               responses'[k].status = 400 /\ responses'[k].error # None
          /\ responses'[k].status = 400 =>
               /\ \A j \in DOMAIN event_queue' : event_queue'[j].req # k
               /\ \A i \in DOMAIN local_events' : local_events'[i].req # k
               /\ k \notin write_failed'
     /\ ( /\ Len(responses') = Len(responses) + 1
          /\ responses'[Len(responses')].status = 400 ) =>
          UNCHANGED <<idVars, local_events, blocked_cards, event_queue, qw,
                      write_failed, realtime_event, syncVars, propVars, cloudVars,
                      mutations, faults, fresh, backoff, wake, authVars, retryVars,
                      dbVars>>]_vars

\* C8's case: a request without card_uid was rejected, and a scan received
\* after it was written
C8_Witness ==
  /\ Len(responses) = 2
  /\ responses[1].status = 400
  /\ responses[1].card_uid = ""
  /\ Len(local_events) = 1
  /\ local_events[1].req = 2

\* C9: whenever insert_local_event fails for a scan, the client that
\* submitted it receives a failure outcome rather than a 202 queued response.
C9_WriteFailurePropagates ==
  \A k \in write_failed : responses[k].status # 202

\* whether the propagation strategy in use has completed a cycle since the
\* last change of access_blocks: every notification was delivered (push),
\* or a reseed succeeded after the change (poll)
PropagationCycleDone ==
  \/ rt = "subscribed" /\ channel = <<>>
  \/ rt = "poll_sleep" /\ fresh

\* C10: once the changes of access_blocks stop and one propagation cycle
\* has passed (push delivery, or one poll), the mirror equals the cloud set
\* filtered by the device's room_id.
C10_MirrorConvergence ==
  PropagationCycleDone =>
    blocked_cards = {b \in access_blocks : b[2] = room_id}

\* C11: a strategy of the propagation channel starts only after the main
\* thread has run the initial reseed, and at the moment it starts the
\* mirror equals the cloud block list of the device's room, so it is not
\* empty while that list is non-empty.
C11_InitialReseedOrdering ==
  [][(rt = "off" /\ rt' # "off") =>
       /\ pc = "start_listener"
       /\ Truthy(room_id)
       /\ blocked_cards' = {b \in access_blocks' : b[2] = room_id'}]_vars

\* C12: the reseed query, the subscription filter and the upload never use
\* an unset or empty room_id: the main thread is past the wait only with a
\* non-empty room_id, the sync loop runs only after the initial reseed, and
\* every uploaded event carries a non-empty room_id.
C12_RoomGating ==
  /\ pc \notin {"login", "start_discovery", "wait_room"} => Truthy(room_id)
  /\ rt # "off" => Truthy(room_id)
  /\ filter_room # None => Truthy(filter_room)
  /\ pc \in LoopPcs => rt # "off"
  /\ \A k \in DOMAIN access_events : Truthy(access_events[k].room_id)

\* C13: a set of realtime_event is never followed by a wait that runs out
\* its whole SYNC_INTERVAL before a cycle has read the outbox: while a set
\* is outstanding the event is still set, or the loop has cleared it and is
\* on its way to the read of the next cycle without passing the wait.
C13_WakeNotLost ==
  /\ wake # "interval"
  /\ wake # "none" => realtime_event \/ pc \in {"sync", "read", "except"}

\* C13's case: the event was set while a cycle was being processed and set
\* again by the second write, the wait returned at once, the event was
\* cleared, and the loop is about to start the cycle that reads both records
C13_Witness ==
  /\ pc = "sync"
  /\ wake = "set"
  /\ ~realtime_event
  /\ Len(local_events) = 2
  /\ Len(access_events) = 1
  /\ local_events[2].synced = 0
  /\ qw = "get"

\* C14: after each successful write the consumer sets realtime_event, and
\* no cycle starts with a set outstanding that the loop has slept a whole
\* interval or a whole backoff on.
C14_PromptUpload ==
  [][/\ (qw = "set" /\ qw' = "get") => realtime_event'
     /\ (pc = "sync" /\ pc' = "read") => wake \notin {"backoff", "interval"}]_vars

\* C15: a notification that was applied leaves (c, room) in the mirror for
\* INSERT and UPDATE and out of it for DELETE, changes no other entry, and
\* sets realtime_event.
C15_PushHandling ==
  [][(rt = "subscribed" /\ channel # <<>> /\ channel' = Tail(channel) /\ faults' = faults) =>
       LET n == Head(channel)
           e == <<n.card_uid, room_id>>
       IN /\ n.eventType \in {"INSERT", "UPDATE"} => e \in blocked_cards'
          /\ n.eventType = "DELETE" => e \notin blocked_cards'
          /\ blocked_cards' \ {e} = blocked_cards \ {e}
          /\ realtime_event']_vars

\* C15's case: after the seed of {(X, R1)} an INSERT of Y and a DELETE of X
\* were delivered and applied
C15_Witness ==
  /\ rt = "subscribed"
  /\ channel = <<>>
  /\ mutations = 2
  /\ faults = 0
  /\ blocked_cards = {<<"Y", Room>>}
  /\ access_blocks = {<<"Y", Room>>}
  /\ realtime_event

\* what C16 says of every step of the poller: it never stops, and the step
\* that leaves "poll" is a reseed (the mirror becomes the cloud list of the
\* room, or stays as it is when the reseed fails) followed by a set
PollStep ==
  /\ rt \in {"poll", "poll_sleep"} => rt' \in {"poll", "poll_sleep"}
  /\ (rt = "subscribe" /\ rt' \notin {"subscribe", "subscribed", "retry"}) => rt' = "poll"
  /\ (rt = "poll" /\ rt' # "poll") =>
       /\ rt' = "poll_sleep"
       /\ realtime_event'
       /\ blocked_cards' = IF cloudUp THEN {b \in access_blocks : b[2] = room_id}
                           ELSE blocked_cards

\* C16: after a subscription failure that names the sync client the poller
\* runs: its first step is a reseed, every sleep is followed by another
\* reseed, each reseed sets realtime_event, and a failed reseed does not
\* stop it.
C16_PollFallback ==
  /\ [][PollStep]_vars
  /\ [](rt = "poll" => <>(rt = "poll_sleep"))
  /\ [](rt = "poll_sleep" => <>(rt = "poll"))

\* C16's case: the poller's reseed failed, the event was set and the poller
\* sleeps until its next cycle
C16_Witness ==
  /\ rt = "poll_sleep"
  /\ pollers = 1
  /\ ~cloudUp
  /\ ~fresh
  /\ mutations = 0
  /\ realtime_event

\* the standard policy: the delay after the k-th failure in a row
StandardDelay(k) ==
  IF BACKOFF_MIN * 2^(k - 1) < BACKOFF_MAX THEN BACKOFF_MIN * 2^(k - 1) ELSE BACKOFF_MAX

\* C17: after a subscription failure of an unrecognized kind a retry always
\* follows, and the delay slept before the retry that follows the k-th
\* failure in a row is min(BACKOFF_MIN * 2^(k-1), BACKOFF_MAX).
C17_RetryBackoff ==
  [][/\ rt = "retry" => rt' \in {"retry", "subscribe"}
     /\ (rt = "retry" /\ rt' = "subscribe") => rt_backoff = StandardDelay(rt_fails)]_vars

\* C18: at most one of an established subscription, a poller and a pending
\* retry thread exists, and a second poller is never started.
C18_StrategiesExclusive ==
  /\ subscriptions + pollers + retriers <= 1
  /\ rt = "subscribed" <=> subscriptions = 1
  /\ rt \in {"poll", "poll_sleep"} <=> pollers = 1
  /\ rt = "retry" <=> retriers = 1

\* C18's case: a retry thread made its attempt and returned, the attempt
\* failed again, and the retry thread it started is the only strategy
C18_Witness ==
  /\ rt = "retry"
  /\ rt_fails = 2
  /\ retriers = 1
  /\ pollers = 0
  /\ subscriptions = 0

\* C19: the backoff of the sync loop stays between BACKOFF_MIN and
\* BACKOFF_MAX; the sleep after a failed cycle lasts the current backoff and
\* leaves min(2 * backoff, BACKOFF_MAX) for the next failure; a successful
\* cycle resets it to BACKOFF_MIN; nothing else changes it.
C19_SyncBackoff ==
  /\ [](BACKOFF_MIN <= backoff /\ backoff <= BACKOFF_MAX)
  /\ [][IF pc \in {"backoff", "except"} /\ pc' # pc
         THEN /\ backoff' >= backoff
              /\ backoff' = (IF 2 * backoff <= BACKOFF_MAX THEN 2 * backoff ELSE BACKOFF_MAX)
         ELSE IF pc \in {"read", "mark"} /\ pc' = "wait"
         THEN backoff' = BACKOFF_MIN
         ELSE backoff' = backoff]_vars

\* C19's case (scenario E): a failed cycle is about to sleep the ceiling,
\* after the failures that doubled the backoff up to it
C19_Witness ==
  /\ pc = "backoff"
  /\ backoff = BACKOFF_MAX
  /\ failed_batch # {}

\* C20: the delay slept after the k-th failed attempt in a row of the
\* initial login is min(BACKOFF_MIN * 2^(k-1), BACKOFF_MAX); in the renewal
\* thread a failure sleeps the current backoff and doubles it up to
\* BACKOFF_MAX, and a success resets it to BACKOFF_MIN.
C20_AuthBackoff ==
  [][/\ (pc = "login" /\ pc' = "login" /\ attempt' = attempt + 1) =>
          login_delay' = StandardDelay(attempt)
     /\ (auth = "backoff" /\ auth' = "signin") =>
          auth_backoff' = (IF 2 * auth_backoff <= BACKOFF_MAX THEN 2 * auth_backoff
                           ELSE BACKOFF_MAX)
     /\ (auth = "signin" /\ auth' = "refresh") => auth_backoff' = BACKOFF_MIN
     /\ (auth = "signin" /\ auth' = "backoff") => auth_backoff' = auth_backoff]_vars

\* whether one of discovery, the initial reseed, the propagation thread and
\* the sync loop has started
Started ==
  \/ disc # "off"
  \/ rt # "off"
  \/ pc \in {"start_listener"} \cup LoopPcs

\* C21: with AUTH_REQUIRED true, none of discovery, the initial reseed, the
\* propagation thread and the sync loop has started while no sign-in has
\* succeeded; with AUTH_REQUIRED false the renewal thread runs in the
\* background and the components do not wait for a session: the discovery
\* thread can be started, and it can read the registry row on which the
\* reseed, the subscription and the sync loop wait, whether or not a
\* sign-in has succeeded.
C21_AuthGatedStartup ==
  /\ auth_required => (Started => session)
  /\ ~auth_required =>
       /\ auth # "off"
       /\ pc = "start_discovery" => ENABLED StartDiscovery
       /\ (disc = "query" /\ cloudUp /\ registry # {}) => ENABLED Discover

\* C22: device_id and room_id are written only by the turn of discovery that
\* finds the principal's row with a room assignment, which commits that row
\* and ends the thread; as long as discovery has not ended, with the row
\* missing or without a room, both stay unresolved.
C22_DiscoveryCommit ==
  [][/\ (disc = "query" /\ disc' = "done") =>
          \E row \in registry :
            Truthy(row.room_id) /\ device_id' = row.id /\ room_id' = row.room_id
     /\ disc' # "done" => device_id' = None /\ room_id' = None]_vars

\* C23: once room_id is non-empty, no step of any thread changes room_id or
\* device_id; so room_id becomes non-empty at most once.
C23_RoomStable ==
  [][Truthy(room_id) => room_id' = room_id /\ device_id' = device_id]_vars

\* C23's case: discovery committed the room and ended, and the sync loop has
\* uploaded two scans under that identity since
C23_Witness ==
  /\ room_id = Room
  /\ device_id = DeviceId
  /\ disc = "done"
  /\ pc = "wait"
  /\ Len(access_events) = 2
  /\ \A k \in DOMAIN access_events : access_events[k].room_id = Room

\* the variables that only the threads of the device write
DeviceVars ==
  <<idVars, local_events, blocked_cards, serverVars, realtime_event, syncVars,
    disc, rt, filter_room, backoff, wake, authVars, retryVars, dbVars>>

\* C24: no step of a thread of the device, discovery included, changes
\* raspberry_devices, rfid_cards or access_blocks: a step that changes one
\* of them is a step of the administration; access_events changes only by
\* the batch insert of the sync cycle.
C24_RegistryReadOnly ==
  [][/\ (registry' # registry \/ rfid_cards' # rfid_cards \/ access_blocks' # access_blocks)
          => UNCHANGED DeviceVars
     /\ access_events' # access_events => pc = "upload" /\ pc' = "mark"]_vars

\* C24's case: discovery found the row without a room assignment, and the
\* row is as the administrator wrote it
C24_Witness ==
  /\ disc = "query"
  /\ device_id = DeviceId
  /\ room_id = None
  /\ registry = {[id |-> DeviceId, room_id |-> None]}

\* C25: in whatever state the worker and the cloud are, a POST /rfid with a
\* card_uid is answered 202 and enqueued, the consumer writes the item it
\* took (when the store takes the write) as one record with synced = 0, and
\* a record goes from synced = 0 to synced = 1 only in a sync cycle whose
\* cloud calls succeeded.
C25_DisconnectedIngestion ==
  /\ [](\A k \in DOMAIN responses :
          /\ responses[k].status = 202
          /\ (~Queued(k) /\ k \notin write_failed) => Cardinality(RecordsOf(k)) = 1)
  /\ [][/\ Len(local_events') > Len(local_events) =>
             /\ Len(local_events') = Len(local_events) + 1
             /\ local_events'[Len(local_events')].synced = 0
        /\ \A i \in DOMAIN local_events :
             (local_events[i].synced = 0 /\ local_events'[i].synced = 1) =>
               (~fetch_failed /\ pc \in {"read", "mark"})]_vars

\* the number of successful inserts into access_events that carried the record
UploadCount(cloud, rec) ==
  Cardinality({k \in DOMAIN cloud : cloud[k].event_time = rec.timestamp})

\* C26: a record is part of more than one successful insert only if a
\* mark_as_synced failed after a successful insert of its batch, so without
\* such a failure every uploaded record is uploaded once; and the records
\* of such a batch are uploaded again: none of them is marked synced
\* before a further insert has carried it.
C26_AtLeastOnce ==
  /\ [](\A i \in DOMAIN local_events :
          UploadCount(access_events, local_events[i]) > 1 => i \in mark_failed)
  /\ [][\A i \in mark_failed :
          (local_events[i].synced = 0 /\ local_events'[i].synced = 1) =>
            UploadCount(access_events', local_events[i]) > 1]_vars

\* C27: every event in access_events carries the authorized value that
\* receive_rfid answered for its scan and that its record stores, whatever
\* the mirror says of the card now.
C27_CapturedAuthorization ==
  \A k \in DOMAIN access_events :
    \E i \in DOMAIN local_events :
      /\ local_events[i].timestamp = access_events[k].event_time
      /\ local_events[i].card_uid = access_events[k].card_uid
      /\ access_events[k].authorized = responses[local_events[i].req].authorized
      /\ access_events[k].authorized = (local_events[i].authorized = 1)

\* C27's case: a scan was authorized while the room was unresolved, the
\* reseed then listed its card as blocked in the device's room, and the
\* event was uploaded as authorized
C27_Witness ==
  \E k \in DOMAIN access_events :
    /\ access_events[k].authorized = TRUE
    /\ is_card_blocked(blocked_cards, access_events[k].card_uid, room_id)

\* C28: the items wait on the queue in the order of their requests, every
\* record is older than every item still queued, the records lie in the
\* store in the order of their requests with strictly increasing ids, and a
\* record is created only by the consumer, from the head of the queue.
C28_IntakeOrder ==
  /\ [](/\ \A a, b \in DOMAIN event_queue :
             a < b => event_queue[a].req < event_queue[b].req
        /\ \A i \in DOMAIN local_events, a \in DOMAIN event_queue :
             local_events[i].req < event_queue[a].req
        /\ \A i, j \in DOMAIN local_events :
             i < j => /\ local_events[i].req < local_events[j].req
                      /\ local_events[i].id < local_events[j].id)
  /\ [][Len(local_events') > Len(local_events) =>
          /\ qw = "get"
          /\ event_queue # <<>>
          /\ event_queue' = Tail(event_queue)
          /\ local_events'[Len(local_events')].req = Head(event_queue).req]_vars

\* C28's case: two scans were enqueued and the consumer has written both
C28_Witness ==
  /\ Len(local_events) = 2
  /\ local_events[1].req = 1
  /\ local_events[2].req = 2
  /\ event_queue = <<>>
  /\ qw = "get"

C30_LoopNeverEnds ==
  /\ [][(pc \in LoopPcs) => (pc' \in LoopPcs)]_vars
  /\ [](pc \in LoopPcs => []<>(pc = "read"))

\* C30's case: a cycle runs after the cycle before it raised a storage
\* error, with the cloud unreachable
C30_Witness ==
  /\ pc = "read"
  /\ faults = MaxFaults
  /\ backoff = BACKOFF_MAX
  /\ fetch_failed
  /\ ~cloudUp

\* C31: the mirror holds at most one entry per (card_uid, room_id) whatever
\* upserts, removals and reseeds have run; applying the same upsert a second
\* time leaves the entries of the first application, and removing an entry
\* that is absent leaves the mirror as it is
C31_MirrorKeyUnique ==
  store.blocked_shape = "current" =>
    /\ \A a, b \in store.blocked :
         (a.card_uid = b.card_uid /\ a.room_id = b.room_id) => a = b
    /\ \A c \in Cards, t \in Times, r \in StoreRooms :
         LET once == UpsertBlockedRow(store.blocked, c, t, r)
         IN /\ UpsertBlockedRow(once, c, t, r) = once
            /\ Cardinality({row \in once : row.card_uid = c /\ row.room_id = r}) = 1
    /\ \A c \in Cards, r \in StoreRooms :
         <<c, r>> \notin Keys(store.blocked) =>
           RemoveBlockedRow(store.blocked, c, r) = store.blocked

\* a reseed committed two entries and an upsert then replaced one of them
C31_Witness ==
  /\ tx.state = "committed"
  /\ Len(tx.rows) = 2
  /\ Cardinality(store.blocked) = 2
  /\ Keys(store.blocked) = {tx.rows[1], tx.rows[2]}
  /\ \E a, b \in store.blocked : a.updated_at # b.updated_at

\* the set of the pairs of a list of fetched rows
RowSet(rows) == {rows[i] : i \in DOMAIN rows}

\* C32: the commit of a reseed leaves in the mirror exactly the pairs the
\* query returned, one entry each; every entry the mirror had before that is
\* not among them, of another room or written by an upsert, is gone
C32_WholesaleReplacement ==
  [][(tx.state = "open" /\ tx'.state = "committed") =>
       /\ Keys(store'.blocked) = RowSet(tx.rows)
       /\ Cardinality(store'.blocked) = Cardinality(RowSet(tx.rows))
       /\ \A k \in Keys(store.blocked) \ RowSet(tx.rows) : k \notin Keys(store'.blocked)]_vars

\* a reseed committed a non-empty set for the device's room; a read during a
\* reseed had found an entry of the empty room in the mirror, and the mirror
\* now holds the fetched pairs only
C32_Witness ==
  /\ tx.state = "committed"
  /\ tx.rows # <<>>
  /\ Keys(store.blocked) = RowSet(tx.rows)
  /\ seen.reseeding /\ seen.room_id = DEFAULT_ROOM_ID /\ seen.in_old

\* the outcomes of a reseed that failed
FailedReseed == {"query_failed", "rolled_back"}

\* C33: a reseed that fails, at the query or at one of the INSERTs, leaves
\* the mirror as it was before the attempt; after the failure a new reseed
\* can start, and its commit brings the mirror to the fetched set
C33_FailedReseedKeepsMirror ==
  /\ [][(tx' # tx /\ tx'.state \in FailedReseed) => store' = store]_vars
  /\ [](tx.state \in FailedReseed =>
          \A rows \in FetchedRows : ENABLED UpdateDelete(rows))
  /\ [][(tx.state = "open" /\ tx'.state = "committed") =>
          Keys(store'.blocked) = RowSet(tx.rows)]_vars

\* the first fetched row was written, the second was rejected, and the
\* mirror still holds the entries it had
C33_Witness ==
  /\ tx.state = "rolled_back"
  /\ Len(tx.rows) = 2
  /\ tx.rows[1][1] # None
  /\ tx.rows[2][1] = None \/ tx.rows[2] = tx.rows[1]
  /\ store.blocked # {}
  /\ tx.rows[1] \notin Keys(store.blocked)

\* the scan records of a store without the authorized column
ScanRows(s) == {[id |-> e.id, card_uid |-> e.card_uid, synced |-> e.synced] : e \in s.events}

C34_ConsumerSurvives ==
  /\ [][write_failed' # write_failed =>
          /\ event_queue # <<>>
          /\ write_failed' = write_failed \cup {Head(event_queue).req}
          /\ event_queue' = Tail(event_queue)
          /\ local_events' = local_events
          /\ realtime_event' = realtime_event
          /\ wake' = wake
          /\ qw' = "get"]_vars
  /\ [](\A k \in DOMAIN responses :
          responses[k].status = 202 =>
            Cardinality(RecordsOf(k)) + (IF Queued(k) THEN 1 ELSE 0)
              + (IF k \in write_failed THEN 1 ELSE 0) = 1)
  /\ [](\A a, b \in DOMAIN event_queue : a # b => event_queue[a].req # event_queue[b].req)
  /\ (event_queue # <<>>) ~> (event_queue = <<>>)

\* the write of the first item failed, the consumer wrote the second one,
\* and the queue is empty
C34_Witness ==
  /\ write_failed = {1}
  /\ Len(local_events) = 1
  /\ local_events[1].req = 2
  /\ event_queue = <<>>
  /\ realtime_event

\* C35: a sign-in attempt of the renewal thread is made only when no
\* successful sign-in, the blocking initial login included, is still within
\* its renewal interval.
C35_RenewalInterval ==
  [][(auth = "signin" /\ auth' # "signin") => ~held]_vars

\* the ids the running cycle read as unsynced: at the read itself the
\* unsynced rows of the store, afterwards what the read recorded
ReadSet == IF pc = "read" THEN Unsynced(local_events) ELSE cycle_read

\* the step that ends the work of a cycle on the store
CycleEnds == pc \in {"read", "upload", "mark"} /\ pc' \in {"wait", "backoff", "except"}

\* C38 as stated: at the end of a cycle the ids it marked are exactly the
\* ids it read as unsynced, and a record appended after the read is unsynced.
C38_MarksExactlyRead ==
  [][CycleEnds =>
       /\ \A i \in ReadSet : local_events'[i].synced = 1
       /\ \A i \in DOMAIN local_events' \ ReadSet :
            i \in DOMAIN local_events => local_events'[i].synced = local_events[i].synced]_vars

\* C38: a record's synced flag is set only by a step of the sync cycle and
\* only for an id the cycle read as unsynced; a cycle whose insert and
\* marking succeed has marked every id it read, one whose insert or marking
\* fails has marked the invalid references only; a record the consumer
\* appends after the read is outside the read set and the batch, and is
\* unsynced when the cycle ends.
C38_MarksOnlyRead ==
  /\ [][\A i \in DOMAIN local_events :
          (local_events[i].synced = 0 /\ local_events'[i].synced = 1) =>
            pc \in {"read", "mark"} /\ i \in ReadSet]_vars
  /\ [][(pc = "mark" /\ pc' = "wait") =>
          \A i \in ReadSet : local_events'[i].synced = 1]_vars
  /\ [][(pc \in {"upload", "mark"} /\ pc' = "backoff") =>
          \A i \in DOMAIN local_events : local_events'[i].synced = local_events[i].synced]_vars
  /\ [](pc \in {"upload", "mark"} =>
          /\ EventIds(events) \subseteq cycle_read
          /\ \A i \in cycle_read :
               local_events[i].synced = IF i \in EventIds(events) THEN 0 ELSE 1)
  /\ [][Len(local_events') > Len(local_events) =>
          /\ local_events'[Len(local_events')].synced = 0
          /\ Len(local_events') \notin ReadSet
          /\ UNCHANGED <<cycle_read, events>>]_vars
  /\ [][(CycleEnds /\ pc # "read") =>
          \A i \in DOMAIN local_events \ ReadSet :
            local_events[i].synced = 0 => local_events'[i].synced = 0]_vars

\* a cycle read record 1 and uploaded it, and the consumer appended record 2
\* before the cycle marked its batch
C38_Witness ==
  /\ pc = "mark"
  /\ cycle_read = {1}
  /\ EventIds(events) = {1}
  /\ Len(local_events) = 2
  /\ local_events[2].synced = 0
  /\ Len(access_events) = 1

\* C39: the rows of a batch were unsynced when the cycle read the outbox and
\* are unsynced when the batch is inserted; the insert carries one event per
\* row of the batch and nothing else, so a record whose synced flag is 1 is
\* in no later payload, whatever cards are registered afterwards.
C39_SyncedNeverUploaded ==
  /\ [](pc \in {"upload", "mark"} =>
          /\ EventIds(events) \subseteq cycle_read
          /\ \A i \in EventIds(events) : local_events[i].synced = 0)
  /\ [][access_events' # access_events =>
          /\ Len(access_events') = Len(access_events) + Len(events)
          /\ \A i \in DOMAIN local_events :
               UploadCount(access_events', local_events[i]) =
                 UploadCount(access_events, local_events[i])
                   + (IF i \in EventIds(events) THEN 1 ELSE 0)
          /\ \A i \in DOMAIN local_events :
               local_events[i].synced = 1 =>
                 UploadCount(access_events', local_events[i]) =
                   UploadCount(access_events, local_events[i])]_vars

\* a scan of an unregistered card was marked as an invalid reference, the
\* card was registered afterwards, and a later cycle uploaded a later scan
\* of that card without the first one
C39_Witness ==
  /\ Len(local_events) = 2
  /\ local_events[1].card_uid = "Y" /\ local_events[2].card_uid = "Y"
  /\ local_events[1].synced = 1 /\ 1 \in invalid_marked
  /\ "Y" \in rfid_cards
  /\ ~Uploaded(access_events, local_events[1])
  /\ Uploaded(access_events, local_events[2])
  /\ local_events[2].synced = 1

==============================================================================
